---- MODULE Spec2Model ----
(***************************************************************************)
(* A model of income_flow.py, the weekly income planner.                   *)
(*                                                                         *)
(* The program is a Streamlit script: every user interaction runs the      *)
(* script from its first line to its last, with one widget reporting the   *)
(* interaction.  st.session_state (current_week, plans) survives between   *)
(* runs, income_plans.json survives between sessions.  One action of the   *)
(* model is one interaction: the run it triggers, the handler that fires   *)
(* in it and, where the handler calls st.rerun(), the run that follows.    *)
(*                                                                         *)
(* Representation.  Amounts are whole dollars (the source holds floats     *)
(* with integral defaults and steps).  A str is a sequence of text         *)
(* chunks, a formatted date a sequence of one-character strings.  A dict   *)
(* of categories is a sequence of (name, amount) entries in insertion      *)
(* order, held in a heap (objs) and referred to by plans through a         *)
(* reference, because dict.copy() shares it.  The clock has the            *)
(* resolution of a day.  The legacy migration (lines 74-104) is not        *)
(* modelled: no income_data.json exists.                                    *)
(***************************************************************************)
EXTENDS Integers, Sequences, FiniteSets, TLC

VARIABLES
    current_week,   \* st.session_state.current_week
    plans,          \* st.session_state.plans: week key -> plan, categories by reference
    objs,           \* the heap of category dicts: reference -> entries
    disk,           \* income_plans.json
    status,         \* "ok", "crashed" (process gone) or "broken" (load raised)
    page,           \* how far the last run rendered, and which category widgets
    msg,            \* the message the last run left on the page
    now,            \* datetime.now(), a date
    faults,         \* save_data failures so far
    steps,          \* interactions so far
    lastOp,         \* history: the last interaction and how its save ended
    fin,            \* input of the pure function under check
    fout            \* its output

vars == <<current_week, plans, objs, disk, status, page, msg, now, faults, steps, lastOp,
          fin, fout>>

----------------------------------------------------------------------------
(* Bounds *)

NumWeeks == 2       \* weeks the user navigates in
MaxTicks == 1       \* days the clock advances
MaxFaults == 1      \* save_data failures in one behaviour
MaxSteps == 3       \* interactions in one behaviour
DateSpan == 70      \* dates get_week_key is applied to
MaxCats == 2        \* categories of a plan given to calculate_metrics
MaxAmount == 3      \* amounts of a plan given to calculate_metrics

----------------------------------------------------------------------------
(* Calendar arithmetic of datetime: proleptic Gregorian ordinals, day 1 is *)
(* 0001-01-01, a Monday.                                                   *)

IsLeap(y) == y % 4 = 0 /\ (y % 100 # 0 \/ y % 400 = 0)

DaysInMonth(y, m) ==
    IF m = 2 THEN (IF IsLeap(y) THEN 29 ELSE 28)
    ELSE IF m \in {4, 6, 9, 11} THEN 30 ELSE 31

DaysBeforeYear(y) ==
    LET p == y - 1 IN p * 365 + (p \div 4) - (p \div 100) + (p \div 400)

RECURSIVE DaysBeforeMonth(_, _)
DaysBeforeMonth(y, m) ==
    IF m = 1 THEN 0 ELSE DaysBeforeMonth(y, m - 1) + DaysInMonth(y, m - 1)

toordinal(d) == DaysBeforeYear(d.year) + DaysBeforeMonth(d.year, d.month) + d.day

next_day(d) ==
    IF d.day < DaysInMonth(d.year, d.month) THEN [d EXCEPT !.day = d.day + 1]
    ELSE IF d.month < 12 THEN [year |-> d.year, month |-> d.month + 1, day |-> 1]
    ELSE [year |-> d.year + 1, month |-> 1, day |-> 1]

prev_day(d) ==
    IF d.day > 1 THEN [d EXCEPT !.day = d.day - 1]
    ELSE IF d.month > 1
         THEN [year |-> d.year, month |-> d.month - 1,
               day |-> DaysInMonth(d.year, d.month - 1)]
    ELSE [year |-> d.year - 1, month |-> 12, day |-> 31]

\* date + timedelta(days=k), a day at a time (the test on the day makes the
\* step's date a value before the next step starts)
RECURSIVE plus_days(_, _)
plus_days(d, k) ==
    IF k = 0 THEN d
    ELSE LET e == IF k > 0 THEN next_day(d) ELSE prev_day(d)
         IN  IF e.day > 0 THEN plus_days(e, IF k > 0 THEN k - 1 ELSE k + 1) ELSE e

weekday_sunday0(d) == toordinal(d) % 7

\* date.weekday(): Monday is 0
weekday(d) == (toordinal(d) + 6) % 7

----------------------------------------------------------------------------
(* strftime / strptime *)

Digit == <<"0", "1", "2", "3", "4", "5", "6", "7", "8", "9">>
MonthAbbr == <<"Jan", "Feb", "Mar", "Apr", "May", "Jun",
               "Jul", "Aug", "Sep", "Oct", "Nov", "Dec">>

DigitVal(c) == CHOOSE n \in 0..9 : Digit[n + 1] = c

Pad2(n) == <<Digit[((n \div 10) % 10) + 1], Digit[(n % 10) + 1]>>
Pad4(n) == <<Digit[((n \div 1000) % 10) + 1], Digit[((n \div 100) % 10) + 1]>> \o Pad2(n)

Num2(s, i) == DigitVal(s[i]) * 10 + DigitVal(s[i + 1])

\* date.strftime("%Y-%m-%d")
strftime_ymd(d) == Pad4(d.year) \o <<"-">> \o Pad2(d.month) \o <<"-">> \o Pad2(d.day)

\* datetime.strptime(s, "%Y-%m-%d")
strptime_ymd(s) ==
    [year |-> Num2(s, 1) * 100 + Num2(s, 3), month |-> Num2(s, 6), day |-> Num2(s, 9)]

\* date.strftime("%b %d")
strftime_bd(d) == <<MonthAbbr[d.month], " ">> \o Pad2(d.day)

\* datetime.now().isoformat(), to the day
isoformat(d) == strftime_ymd(d)

get_week_key(date) ==
    LET days_since_monday == weekday(date)
        monday == plus_days(date, 0 - days_since_monday)
    IN  strftime_ymd(monday)

get_week_display(week_key) ==
    LET monday == strptime_ymd(week_key)
        sunday == plus_days(monday, 6)
    IN  <<"Week of ">> \o strftime_bd(monday) \o <<" - ">> \o strftime_bd(sunday)
            \o <<", ">> \o Pad4(sunday.year)

----------------------------------------------------------------------------
(* calculate_metrics *)

RECURSIVE sum(_)
sum(values) == IF values = <<>> THEN 0 ELSE values[1] + sum(Tail(values))

\* dict.values()
Values(categories) == [i \in DOMAIN categories |-> categories[i].amount]

RECURSIVE Gcd(_, _)
Gcd(a, b) == IF b = 0 THEN a ELSE Gcd(b, a % b)

\* a / b as a fraction in lowest terms (b > 0, a >= 0)
Frac(a, b) == LET g == Gcd(a, b) IN [num |-> a \div g, den |-> b \div g]

calculate_metrics_at_zero(plan) ==
    LET total_allocated == sum(Values(plan.categories))
        income == plan.income
        remaining == income - total_allocated
        allocation_percentage ==
            IF income > 0 THEN Frac(total_allocated * 100, income) ELSE Frac(0, 1)
    IN  [total_allocated |-> total_allocated,
         remaining |-> remaining,
         allocation_percentage |-> allocation_percentage,
         over_budget |-> remaining <= 0]

calculate_metrics(plan) ==
    LET total_allocated == sum(Values(plan.categories))
        income == plan.income
        remaining == income - total_allocated
        allocation_percentage ==
            IF income > 0 THEN Frac(total_allocated * 100, income) ELSE Frac(0, 1)
    IN  [total_allocated |-> total_allocated,
         remaining |-> remaining,
         allocation_percentage |-> allocation_percentage,
         over_budget |-> remaining < 0]

----------------------------------------------------------------------------
(* The dates the model meets: the weeks the user navigates in and the days *)
(* the clock shows.  The conversions are tabulated over them, so that they *)
(* are computed once.                                                      *)

FirstDay == [year |-> 2024, month |-> 2, day |-> 19]
StartDate == plus_days(FirstDay, 6)
WindowDates == {plus_days(FirstDay, k) : k \in 0..(7 * NumWeeks - 1)}
ClockDates == {plus_days(StartDate, k) : k \in 0..MaxTicks}

KeyOf == [d \in WindowDates \cup ClockDates |-> get_week_key(d)]
WeekKeys == {KeyOf[d] : d \in WindowDates}
InWindow(week_key) == week_key \in WeekKeys

\* the key of the week `days` days from a week
Shift(week_key, days) == get_week_key(plus_days(strptime_ymd(week_key), days))
PrevOf == [w \in WeekKeys |-> Shift(w, 0 - 7)]
NextOf == [w \in WeekKeys |-> Shift(w, 7)]

LabelOf == [w \in WeekKeys |-> get_week_display(w)]
StampOf == [d \in ClockDates |-> isoformat(d)]
Tomorrow == [d \in ClockDates |-> plus_days(d, 1)]
Elapsed == [d \in ClockDates |-> toordinal(d) - toordinal(StartDate)]

----------------------------------------------------------------------------
(* The session memory: plans, whose "categories" is a reference into objs. *)

DefaultCategories ==
    <<[name |-> "Rent", amount |-> 250], [name |-> "Car", amount |-> 200],
      [name |-> "Roth IRA", amount |-> 100], [name |-> "Savings", amount |-> 100],
      [name |-> "Food", amount |-> 120], [name |-> "Day-offs Leisure", amount |-> 30]>>

DefaultIncome == 800

\* dict keys
Names(categories) == {categories[i].name : i \in DOMAIN categories}

IndexOf(categories, cat) == CHOOSE i \in DOMAIN categories : categories[i].name = cat

\* categories[cat] = val: in place when the key exists, appended otherwise
DictSet(categories, cat, val) ==
    IF cat \in Names(categories)
    THEN [categories EXCEPT ![IndexOf(categories, cat)].amount = val]
    ELSE Append(categories, [name |-> cat, amount |-> val])

\* del categories[cat]
DictDel(categories, cat) ==
    LET k == IndexOf(categories, cat)
    IN  [i \in 1..(Len(categories) - 1) |->
            IF i < k THEN categories[i] ELSE categories[i + 1]]

Mem == [plans |-> plans, objs |-> objs]

\* plans[week]["categories"]
Cats(m, week) == m.objs[m.plans[week].categories]

\* A reference is named by the set of weeks whose plans hold it, and a dict
\* no plan refers to is gone (reference counting).
Holders(m, r) == {w \in DOMAIN m.plans : m.plans[w].categories = r}

Normalize(m) ==
    [plans |-> [w \in DOMAIN m.plans |->
                   [m.plans[w] EXCEPT !.categories = Holders(m, m.plans[w].categories)]],
     objs |-> [n \in {Holders(m, m.plans[w].categories) : w \in DOMAIN m.plans} |->
                  m.objs[m.plans[CHOOSE w \in n : TRUE].categories]]]

\* lines 121-128: the top of every run gives the current week a plan
EnsureCurrentWeek(m, week, today) ==
    IF week \in DOMAIN m.plans THEN m
    ELSE [plans |-> (week :> [categories |-> {week},
                              income |-> DefaultIncome,
                              created_at |-> StampOf[today],
                              notes |-> <<>>]) @@ m.plans,
          objs |-> ({week} :> DefaultCategories) @@ m.objs]

\* the plans as values, every dict written out: what json.dump sees
Doc(m) ==
    [w \in DOMAIN m.plans |-> [m.plans[w] EXCEPT !.categories = Cats(m, w)]]

----------------------------------------------------------------------------
(* income_plans.json: the text as a sequence of tokens, one per plan       *)
(* between the opening and the closing brace.                              *)

NoFile == [exists |-> FALSE, content |-> <<>>]

\* a < b for two formatted dates, as str compares them
Before(a, b) ==
    \E i \in DOMAIN a :
        /\ \A j \in 1..(i - 1) : a[j] = b[j]
        /\ a[i] # b[i]
        /\ DigitVal(a[i]) < DigitVal(b[i])

\* one token per plan.  plans is a mapping here, so the tokens go out in the
\* order of the week keys (json.dump writes them in the dict's order; no
\* reader of the file depends on it)
RECURSIVE PlanTokens(_, _)
PlanTokens(doc, weeks) ==
    IF weeks = {} THEN <<>>
    ELSE LET w == CHOOSE x \in weeks : \A y \in weeks \ {x} : Before(x, y)
         IN  <<[t |-> "plan", week |-> w, plan |-> doc[w]]>> \o PlanTokens(doc, weeks \ {w})

\* json.dump({"plans": plans}, f)
Dump(doc) ==
    <<[t |-> "{", week |-> <<>>, plan |-> <<>>]>> \o PlanTokens(doc, DOMAIN doc)
        \o <<[t |-> "}", week |-> <<>>, plan |-> <<>>]>>

\* what json.load accepts: a whole document
WellFormed(content) ==
    /\ Len(content) >= 2
    /\ content[1].t = "{"
    /\ content[Len(content)].t = "}"

\* json.load(f).get("plans", {}), as values
Load(content) ==
    LET body == {i \in DOMAIN content : content[i].t = "plan"}
    IN  [w \in {content[i].week : i \in body} |->
            content[CHOOSE i \in body : content[i].week = w].plan]

\* the loaded plans in memory: every plan has a dict of its own
Fresh(doc) ==
    [plans |-> [w \in DOMAIN doc |-> [doc[w] EXCEPT !.categories = {w}]],
     objs |-> [n \in {{w} : w \in DOMAIN doc} |-> doc[CHOOSE w \in n : TRUE].categories]]

----------------------------------------------------------------------------
(* The user's world: the weeks navigated in, the clock, what is typed.     *)

AmountInputs == {0 - 10, 0}
NameInputs == {"", "Rent", "Fun"}
NoteInputs == {<<>>, <<"memo">>}
TouchedNames == {"Rent", "Fun"}

MinValue == 0
NewAmountDefault == 50

NumberInputNoMin(raw, min_value, value) == raw

\* st.number_input(min_value=...): a number below min_value is not taken,
\* the widget keeps its value
NumberInput(raw, min_value, value) == IF raw < min_value THEN value ELSE raw

----------------------------------------------------------------------------
(* One run of the script, as far as it gets.                               *)

Usable == status = "ok" /\ steps < MaxSteps

\* the widgets of the part of the page a run rendered
PageAt(at, amount, delete) == [at |-> at, amount |-> amount, delete |-> delete]
FullPage(m, week) == PageAt("end", Names(Cats(m, week)), Names(Cats(m, week)))
NoPage == PageAt("none", {}, {})

SaveAvail == page.at \notin {"none", "copy"}
DeleteAvail == page.at \notin {"none", "copy", "save"}
NotesAvail == page.at \notin {"none", "copy", "save", "delete"}
IncomeAvail == page.at \notin {"none", "copy", "save", "delete", "notes"}
AddAvail == page.at \in {"add", "end"}

\* the memory after lines 106-128 of the run an interaction triggers
M0 == EnsureCurrentWeek(Mem, current_week, now)

Op(op, tw, name) ==
    [op |-> op, week |-> current_week, tw |-> tw, name |-> name, outcome |-> "none"]

\* the run reaches its last line with memory m
Show(m, week) ==
    /\ plans' = m.plans
    /\ objs' = m.objs
    /\ page' = FullPage(m, week)

\* save_data() and what follows it in the handler: text is what json.dump
\* writes, m1 the memory the handler leaves, stop the page if the run ends at
\* the save.
Saved(op, text, m1, stop, rerun, okmsg) ==
    \/ /\ disk' = [exists |-> TRUE, content |-> text]
       /\ Show(IF rerun THEN EnsureCurrentWeek(m1, current_week, now) ELSE m1, current_week)
       /\ msg' = IF rerun THEN "" ELSE okmsg
       /\ lastOp' = [op EXCEPT !.outcome = "ok"]
       /\ steps' = steps + 1
       /\ UNCHANGED <<current_week, status, now, faults, fin, fout>>
    \/ \* open() raises: the file is as it was, the run ends here
       /\ faults < MaxFaults
       /\ disk' = disk
       /\ plans' = m1.plans
       /\ objs' = m1.objs
       /\ page' = stop
       /\ msg' = "OSError"
       /\ faults' = faults + 1
       /\ lastOp' = [op EXCEPT !.outcome = "error"]
       /\ steps' = steps + 1
       /\ UNCHANGED <<current_week, status, now, fin, fout>>
    \/ \* the process stops after open() truncated the file and k tokens went out
       /\ faults < MaxFaults
       /\ \E k \in 0..(Len(text) - 1) :
              disk' = [exists |-> TRUE, content |-> SubSeq(text, 1, k)]
       /\ status' = "crashed"
       /\ current_week' = <<>>
       /\ plans' = <<>>
       /\ objs' = <<>>
       /\ page' = NoPage
       /\ msg' = ""
       /\ faults' = faults + 1
       /\ lastOp' = [op EXCEPT !.outcome = "crash"]
       /\ steps' = steps + 1
       /\ UNCHANGED <<now, fin, fout>>

Finish(op, m1, stop, rerun, okmsg) ==
    Saved(op, Dump(Doc(m1)), Normalize(m1), stop, rerun, okmsg)

\* lines 174-203: the week changes and st.rerun() starts the run that shows it
Navigate(op, week) ==
    /\ Usable
    /\ InWindow(week)
    /\ Show(EnsureCurrentWeek(M0, week, now), week)
    /\ current_week' = week
    /\ msg' = ""
    /\ lastOp' = Op(op, week, "")
    /\ steps' = steps + 1
    /\ UNCHANGED <<disk, status, now, faults, fin, fout>>

Prev == Navigate("navigate", PrevOf[current_week])

Today == Navigate("navigate", KeyOf[now])

NextWeek == Navigate("navigate", NextOf[current_week])

PickDate == \E selected_date \in WindowDates : Navigate("navigate", KeyOf[selected_date])

CopiedPlanOwnLabel(template, template_week, week, today) ==
    [template EXCEPT !.created_at = StampOf[today],
                     !.notes = <<"Copied from ">> \o LabelOf[week]]

\* lines 237-239: dict.copy() is shallow, "categories" is the template's dict
CopiedPlan(template, template_week, week, today) ==
    [template EXCEPT !.created_at = StampOf[today],
                     !.notes = <<"Copied from ">> \o LabelOf[template_week]]

\* lines 236-243
CopyIn(m0) ==
    \E template_week \in DOMAIN m0.plans :
        Finish(Op("copy", template_week, ""),
               [m0 EXCEPT !.plans[current_week] =
                    CopiedPlan(m0.plans[template_week], template_week, current_week, now)],
               PageAt("copy", {}, {}), TRUE, "")

CopyToCurrentWeek == Usable /\ CopyIn(M0)

\* lines 252-254
SaveButton ==
    /\ Usable /\ SaveAvail
    /\ Finish(Op("save", <<>>, ""), M0, PageAt("save", {}, {}), FALSE, "Saved!")

\* lines 257-262
DeleteIn(m0) ==
    /\ current_week \in DOMAIN m0.plans
    /\ Finish(Op("delete", <<>>, ""),
              [m0 EXCEPT !.plans = [w \in DOMAIN m0.plans \ {current_week} |-> m0.plans[w]]],
              PageAt("delete", {}, {}), TRUE, "")

DeleteButton == Usable /\ DeleteAvail /\ DeleteIn(M0)

\* lines 275-283
NotesIn(m0) ==
    \E notes \in NoteInputs :
        /\ notes # m0.plans[current_week].notes
        /\ Finish(Op("notes", <<>>, ""),
                  [m0 EXCEPT !.plans[current_week].notes = notes],
                  PageAt("notes", {}, {}), FALSE, "")

EditNotes == Usable /\ NotesAvail /\ NotesIn(M0)

\* lines 290-300
IncomeIn(m0) ==
    \E raw \in AmountInputs :
        /\ NumberInput(raw, MinValue, m0.plans[current_week].income)
               # m0.plans[current_week].income
        /\ Finish(Op("income", <<>>, ""),
                  [m0 EXCEPT !.plans[current_week].income =
                       NumberInput(raw, MinValue, m0.plans[current_week].income)],
                  PageAt("income", {}, {}), FALSE, "")

EditIncome == Usable /\ IncomeAvail /\ IncomeIn(M0)

\* the names of the first k entries
Upto(categories, k) == {categories[i].name : i \in 1..k}

\* lines 353-364, for the entry k of the dict
AmountIn(m0, categories, k) ==
    \E raw \in AmountInputs :
        /\ NumberInput(raw, MinValue, categories[k].amount) # categories[k].amount
        /\ Finish(Op("amount", <<>>, categories[k].name),
                  [m0 EXCEPT !.objs[m0.plans[current_week].categories] =
                       DictSet(categories, categories[k].name,
                               NumberInput(raw, MinValue, categories[k].amount))],
                  PageAt("amount", Upto(categories, k), Upto(categories, k - 1)),
                  FALSE, "")

CatsIn(m0) == m0.objs[m0.plans[current_week].categories]

AmountAt(m0, categories) ==
    \E k \in DOMAIN categories :
        /\ categories[k].name \in TouchedNames \cap page.amount
        /\ AmountIn(m0, categories, k)

EditAmount == Usable /\ AmountAt(M0, CatsIn(M0))

\* lines 367-370, for the entry k of the dict
RemoveIn(m0, categories, k) ==
    Finish(Op("remove", <<>>, categories[k].name),
           [m0 EXCEPT !.objs[m0.plans[current_week].categories] =
                DictDel(categories, categories[k].name)],
           PageAt("catdel", Upto(categories, k), Upto(categories, k)),
           TRUE, "")

RemoveAt(m0, categories) ==
    \E k \in DOMAIN categories :
        /\ categories[k].name \in TouchedNames \cap page.delete
        /\ RemoveIn(m0, categories, k)

DeleteCategory == Usable /\ RemoveAt(M0, CatsIn(M0))

AddAcceptedAnyName(new_cat, categories) == new_cat # ""

\* line 385
AddAccepted(new_cat, categories) == new_cat # "" /\ new_cat \notin Names(categories)

\* lines 384-392
AddIn(m0, categories) ==
    \E new_cat \in NameInputs, raw \in AmountInputs :
        IF AddAccepted(new_cat, categories)
        THEN Finish(Op("add", <<>>, new_cat),
                    [m0 EXCEPT !.objs[m0.plans[current_week].categories] =
                         DictSet(categories, new_cat,
                                 NumberInput(raw, MinValue, NewAmountDefault))],
                    PageAt("add", Names(categories), Names(categories)),
                    TRUE, "")
        ELSE /\ Show(m0, current_week)
             /\ msg' = IF new_cat \in Names(categories) THEN "Category exists!"
                       ELSE "Enter category name!"
             /\ lastOp' = [Op("add", <<>>, new_cat) EXCEPT !.outcome = "rejected"]
             /\ steps' = steps + 1
             /\ UNCHANGED <<current_week, disk, status, now, faults, fin, fout>>

AddCategory == Usable /\ AddAvail /\ AddIn(M0, CatsIn(M0))

\* lines 114-119
Loaded ==
    IF disk.exists THEN Fresh(Load(disk.content)) ELSE [plans |-> <<>>, objs |-> <<>>]

\* lines 106-128 with an empty st.session_state: a new browser session, or
\* the process started again
NewSession ==
    /\ steps < MaxSteps
    /\ steps' = steps + 1
    /\ current_week' = KeyOf[now]
    /\ IF disk.exists /\ ~WellFormed(disk.content)
       THEN \* json.load raises, in this run and in every later one
            /\ status' = "broken"
            /\ plans' = <<>>
            /\ objs' = <<>>
            /\ page' = NoPage
            /\ msg' = "JSONDecodeError"
       ELSE /\ status' = "ok"
            /\ Show(EnsureCurrentWeek(Loaded, KeyOf[now], now), KeyOf[now])
            /\ msg' = ""
    /\ lastOp' = [op |-> "session", week |-> KeyOf[now], tw |-> <<>>, name |-> "",
                  outcome |-> "none"]
    /\ UNCHANGED <<disk, now, faults, fin, fout>>

\* a day passes
Tick ==
    /\ Elapsed[now] < MaxTicks
    /\ now' = Tomorrow[now]
    /\ UNCHANGED <<current_week, plans, objs, disk, status, page, msg, faults, steps, lastOp,
                   fin, fout>>

Init ==
    /\ now = StartDate
    /\ disk = NoFile
    /\ status = "ok"
    /\ current_week = KeyOf[StartDate]
    /\ plans = EnsureCurrentWeek([plans |-> <<>>, objs |-> <<>>],
                                 KeyOf[StartDate], StartDate).plans
    /\ objs = EnsureCurrentWeek([plans |-> <<>>, objs |-> <<>>],
                                KeyOf[StartDate], StartDate).objs
    /\ page = FullPage([plans |-> plans, objs |-> objs], KeyOf[StartDate])
    /\ msg = ""
    /\ faults = 0
    /\ steps = 0
    /\ lastOp = [op |-> "start", week |-> KeyOf[StartDate], tw |-> <<>>,
                 name |-> "", outcome |-> "none"]
    /\ fin = <<>>
    /\ fout = <<>>

Next ==
    \/ Prev
    \/ Today
    \/ NextWeek
    \/ PickDate
    \/ CopyToCurrentWeek
    \/ SaveButton
    \/ DeleteButton
    \/ EditNotes
    \/ EditIncome
    \/ EditAmount
    \/ DeleteCategory
    \/ AddCategory
    \/ NewSession
    \/ Tick

Spec == Init /\ [][Next]_vars

----------------------------------------------------------------------------
(* calculate_metrics and get_week_key on their own: the input is drawn,    *)
(* the function applied.  The session is not running.                      *)

appvars == <<current_week, plans, objs, disk, status, page, msg, now, faults, steps, lastOp>>

NotRunning ==
    /\ current_week = <<>>
    /\ plans = <<>>
    /\ objs = <<>>
    /\ disk = NoFile
    /\ status = "off"
    /\ page = NoPage
    /\ msg = ""
    /\ now = StartDate
    /\ faults = 0
    /\ steps = 0
    /\ lastOp = [op |-> "none", week |-> <<>>, tw |-> <<>>, name |-> "", outcome |-> "none"]

CatNames == <<"Rent", "Car", "Roth IRA", "Savings", "Food", "Day-offs Leisure">>

MetricPlans ==
    {[categories |-> [k \in DOMAIN a |-> [name |-> CatNames[k], amount |-> a[k]]],
      income |-> i] :
        a \in UNION {[1..n -> 0..MaxAmount] : n \in 0..MaxCats},
        i \in 0..(MaxCats * MaxAmount + 1)}

InitMetrics ==
    /\ NotRunning
    /\ fin \in MetricPlans
    /\ fout = [done |-> FALSE]

ApplyMetrics ==
    /\ ~fout.done
    /\ fout' = [done |-> TRUE, metrics |-> calculate_metrics(fin)]
    /\ UNCHANGED <<appvars, fin>>

SpecMetrics == InitMetrics /\ [][ApplyMetrics]_vars

DateBase == [year |-> 2023, month |-> 12, day |-> 25]
TestDates == {plus_days(DateBase, k) : k \in 0..(DateSpan - 1)}

InitWeek ==
    /\ NotRunning
    /\ fin \in [a : TestDates, b : TestDates]
    /\ fout = [done |-> FALSE]

ApplyWeekKey ==
    /\ ~fout.done
    /\ fout' = [done |-> TRUE,
                a |-> get_week_key(fin.a),
                b |-> get_week_key(fin.b),
                again |-> get_week_key(strptime_ymd(get_week_key(fin.a)))]
    /\ UNCHANGED <<appvars, fin>>

SpecWeek == InitWeek /\ [][ApplyWeekKey]_vars

----------------------------------------------------------------------------
(* The claims.                                                             *)

MemNext == [plans |-> plans', objs |-> objs']

\* this step is an interaction (the clock's step leaves lastOp as it was)
Acted == steps' = steps + 1

CategoryOps == {"amount", "add", "remove"}

\* C1: a category edit (set amount, add, remove) on the current week leaves
\* the categories of every other week as they were.  Two weeks can only
\* be related through a copy, so this is the claim that the copy is deep.
C1_EditsLeaveOtherWeeks ==
    [][(Acted /\ lastOp'.op \in CategoryOps /\ lastOp'.outcome \in {"ok", "error"})
          => \A w \in DOMAIN plans \cap DOMAIN plans' :
                 w # lastOp'.week => Cats(MemNext, w) = Cats(Mem, w)]_vars

\* C2: once an interaction has finished without a failure, the file holds
\* exactly the plans in memory.
C2_FileEqualsMemory ==
    (status = "ok" /\ lastOp.op # "start" /\ lastOp.outcome \in {"ok", "none", "rejected"})
        => /\ disk.exists
           /\ WellFormed(disk.content)
           /\ Load(disk.content) = Doc(Mem)

\* C3: after Delete on a week with a plan, and the run that follows it, the
\* week has no plan in memory.
C3_DeletedWeekAbsent ==
    (lastOp.op = "delete" /\ lastOp.outcome = "ok") => lastOp.week \notin DOMAIN plans

\* C4: when the save of an operation fails, the plans in memory are what
\* they were before the operation.
C4_FailedSaveLeavesMemory ==
    [][(Acted /\ lastOp'.outcome = "error") => Doc(MemNext) = Doc(Mem)]_vars

\* C5: Add with an empty name, or with a name the current week's plan
\* already has, leaves memory and file as they were and shows an error.
C5_RejectedAddChangesNothing ==
    [][(Acted /\ lastOp'.op = "add"
              /\ (lastOp'.name = "" \/ lastOp'.name \in Names(Cats(Mem, current_week))))
          => /\ plans' = plans
             /\ objs' = objs
             /\ disk' = disk
             /\ status' = "ok"
             /\ msg' \in {"Category exists!", "Enter category name!"}]_vars

C5_Witness ==
    /\ lastOp.op = "add"
    /\ lastOp.name = "Rent"
    /\ lastOp.outcome = "rejected"
    /\ msg = "Category exists!"
    /\ "Rent" \in Names(Cats(Mem, current_week))

\* C6: right after Copy from an existing week A to the current week B, the
\* plan of B has A's categories and income as they were, the provenance
\* note of A, the time of the copy, and every other week is as it was.
C6_CopyResult ==
    [][(Acted /\ lastOp'.op = "copy" /\ lastOp'.outcome \in {"ok", "error"}
              /\ lastOp'.tw \in DOMAIN plans)
          => LET A == lastOp'.tw
                 B == lastOp'.week
             IN  /\ B \in DOMAIN plans'
                 /\ Cats(MemNext, B) = Cats(Mem, A)
                 /\ plans'[B].income = plans[A].income
                 /\ plans'[B].notes = <<"Copied from ">> \o get_week_display(A)
                 /\ plans'[B].created_at = isoformat(now)
                 /\ \A w \in (DOMAIN plans \cup DOMAIN plans') \ {B} :
                        /\ w \in DOMAIN plans \cap DOMAIN plans'
                        /\ Doc(MemNext)[w] = Doc(Mem)[w]]_vars

C6_Witness ==
    /\ lastOp.op = "copy"
    /\ lastOp.outcome = "ok"
    /\ lastOp.tw # lastOp.week
    /\ lastOp.tw \in DOMAIN plans
    /\ plans[lastOp.week].created_at # plans[lastOp.tw].created_at
    /\ plans[lastOp.week].notes = <<"Copied from ">> \o get_week_display(lastOp.tw)

\* the sum of the amounts, counted a dollar at a time
Dollars(categories) ==
    Cardinality({<<i, k>> \in (DOMAIN categories) \X (1..MaxAmount) : k <= categories[i].amount})

\* C7: for a plan with non-negative amounts, total_allocated is the sum of
\* the amounts, remaining is income less that, over_budget is remaining < 0,
\* and allocation_percentage is total_allocated / income * 100, or 0 when
\* income is 0.
C7_Metrics ==
    fout.done =>
        LET m == fout.metrics
            p == m.allocation_percentage
        IN  /\ m.total_allocated = Dollars(fin.categories)
            /\ m.remaining + m.total_allocated = fin.income
            /\ m.over_budget <=> fin.income < Dollars(fin.categories)
            /\ p.den > 0
            /\ fin.income > 0 => p.num * fin.income = Dollars(fin.categories) * 100 * p.den
            /\ fin.income = 0 => p.num = 0

C7_Witness ==
    /\ fout.done
    /\ fin.income = 0
    /\ fout.metrics.total_allocated > 0
    /\ fout.metrics.over_budget
    /\ fout.metrics.allocation_percentage.num = 0

\* 2024-03-04 is a Monday
KnownMonday == [year |-> 2024, month |-> 3, day |-> 4]
Mondays == {plus_days(KnownMonday, 0 - 7 * n) : n \in 0..((DateSpan \div 7) + 2)}
WeekFrom(monday) == {plus_days(monday, k) : k \in 0..6}
SameWeek(a, b) == \E monday \in Mondays : a \in WeekFrom(monday) /\ b \in WeekFrom(monday)

\* C8: the key of a date is the Monday of the date's week, two dates have the
\* same key exactly when they are in the same Monday-to-Sunday week, and the
\* key of a key's date is the key.
C8_WeekKey ==
    fout.done =>
        /\ strptime_ymd(fout.a) \in Mondays
        /\ fin.a \in WeekFrom(strptime_ymd(fout.a))
        /\ (fout.a = fout.b) <=> SameWeek(fin.a, fin.b)
        /\ fout.again = fout.a

C8_Witness ==
    /\ fout.done
    /\ fin.a = [year |-> 2024, month |-> 3, day |-> 3]
    /\ fin.b = [year |-> 2024, month |-> 2, day |-> 26]
    /\ fout.a = fout.b
    /\ fout.a = <<"2", "0", "2", "4", "-", "0", "2", "-", "2", "6">>

\* C9: every plan in memory has income >= 0 and every amount >= 0.
C9_AmountsNonNegative ==
    \A w \in DOMAIN plans :
        /\ plans[w].income >= 0
        /\ \A i \in DOMAIN Cats(Mem, w) : Cats(Mem, w)[i].amount >= 0

C9_Witness ==
    /\ lastOp.op = "amount"
    /\ lastOp.outcome = "ok"
    /\ \E i \in DOMAIN Cats(Mem, current_week) :
           /\ Cats(Mem, current_week)[i].name = lastOp.name
           /\ Cats(Mem, current_week)[i].amount = 0
    /\ \E w \in DOMAIN plans : plans[w].income = 0

\* C10: the file, when it exists, holds a whole document.
C10_FileIsWhole == disk.exists => WellFormed(disk.content)

====
